---- MODULE Spec2Model ----
(***************************************************************************)
(* Model of bcv_historico.py: extract_date, process_sheet and              *)
(* merge_excel_files.                                                      *)
(*                                                                         *)
(* Cell values are records [t, s, n]: t is the Python type ("str", "num",  *)
(* "nan" for an empty pandas cell, "none" for None), s the text as a       *)
(* sequence of characters and n the number.                                *)
(***************************************************************************)
EXTENDS Integers, Sequences, FiniteSets, TLC

VARIABLES
    input_files,  \* merge_excel_files: the argument, a sequence of path values
    disk,         \* what pd.ExcelFile found for each file so far: the kinds of its sheets
    pc,           \* position in merge_excel_files
    file_idx,     \* enumerate index of the file being processed
    xls,          \* the open workbook: the kinds of its sheets, in sheet_names order
    sheet_idx,    \* number of sheets of xls already iterated
    current_row,  \* the row cursor
    ws,           \* the output worksheet: <<row, column>> -> cell value
    border,       \* the cells <<row, column>> that carry the dotted bottom border
    saved,        \* the worksheet written by wb.save, or NotSaved
    out,          \* lines printed so far
    status,       \* "running", "returned", or "raised" (error left the function)
    call,         \* a direct call of extract_date / process_sheet: its arguments
    ret           \* ... and its outcome

vars == <<input_files, disk, pc, file_idx, xls, sheet_idx, current_row, ws,
          border, saved, out, status, call, ret>>

mergeVars == <<input_files, disk, pc, file_idx, xls, sheet_idx, current_row,
               ws, border, saved, out, status>>

(***************************************************************************)
(* Bounds                                                                  *)
(***************************************************************************)
MaxFiles == 2
\* the sheets of all the input files together
MaxSheets == 3
MaxPad == 2
MaxRows == 16
MaxCols == 8
MaxPrior == 2

(***************************************************************************)
(* Values                                                                  *)
(***************************************************************************)
Str(chars) == [t |-> "str", s |-> chars, n |-> 0]
Num(k) == [t |-> "num", s |-> <<>>, n |-> k]
NaN == [t |-> "nan", s |-> <<>>, n |-> 0]
None == [t |-> "none", s |-> <<>>, n |-> 0]
\* a whole label kept as one piece of text
Label(text) == [t |-> "str", s |-> <<text>>, n |-> 0]

isinstance_str(v) == v.t = "str"
\* pd.notna: false for NaN and None
notna(v) == v.t \notin {"nan", "none"}

Digits == {"0", "1", "2", "3", "4", "5", "6", "7", "8", "9"}

(***************************************************************************)
(* extract_date                                                            *)
(***************************************************************************)
\* r'\d{2}/\d{2}/\d{4}' as a sequence of pattern items
DATE_PATTERN == <<"\\d", "\\d", "/", "\\d", "\\d", "/", "\\d", "\\d", "\\d", "\\d">>

item_matches(item, ch) == IF item = "\\d" THEN ch \in Digits ELSE ch = item

\* the pattern matches the text starting at position i
match_at(pattern, text, i) ==
    /\ i + Len(pattern) - 1 <= Len(text)
    /\ \A k \in 1..Len(pattern) : item_matches(pattern[k], text[i + k - 1])

NoMatch == [found |-> FALSE, group |-> <<>>]

\* re.search: the leftmost match, scanning start positions from i
RECURSIVE re_search_from(_, _, _)
re_search_from(pattern, text, i) ==
    IF i + Len(pattern) - 1 > Len(text) THEN NoMatch
    ELSE IF match_at(pattern, text, i)
         THEN [found |-> TRUE, group |-> SubSeq(text, i, i + Len(pattern) - 1)]
         ELSE re_search_from(pattern, text, i + 1)

re_search(pattern, text) == re_search_from(pattern, text, 1)

\* faulty variant: returns the matched text up to the end of the string
extract_date_tail(date_string) ==
    IF isinstance_str(date_string)
    THEN LET m == re_search(DATE_PATTERN, date_string.s)
         IN IF m.found
            THEN Str(SubSeq(date_string.s,
                            CHOOSE i \in 1..Len(date_string.s) :
                                /\ match_at(DATE_PATTERN, date_string.s, i)
                                /\ \A j \in 1..(i - 1) :
                                       ~match_at(DATE_PATTERN, date_string.s, j),
                            Len(date_string.s)))
            ELSE date_string
    ELSE date_string

extract_date(date_string) ==
    IF isinstance_str(date_string)
    THEN LET m == re_search(DATE_PATTERN, date_string.s)
         IN IF m.found THEN Str(m.group) ELSE date_string
    ELSE date_string

(***************************************************************************)
(* DataFrame and worksheet                                                 *)
(***************************************************************************)
DATE_ROW == 4
DATA_ROW == 14
B_COL == 1
D_COL == 3
HEADER_ROW == 2
FIRST_DATA_ROW == 3
NUM_COLS == 9

\* A DataFrame read with header=None: nrows x ncols cells, the cells that
\* are not listed in df.cells being empty (NaN).
iloc_in_bounds(df, r, c) == r < df.nrows /\ c < df.ncols

iloc(df, r, c) == IF <<r, c>> \in DOMAIN df.cells THEN df.cells[<<r, c>>] ELSE NaN

\* the value a cell holds after ws.cell(..., value=value): the value is
\* assigned only when it is not None, and a cell created by the call is empty
ws_cell_value(sheet, p, value) ==
    IF value.t = "none" /\ p \in DOMAIN sheet THEN sheet[p] ELSE value

\* for col_num, value in enumerate(row_data, 1): ws.cell(row, col_num, value)
write_row(sheet, row, row_data) ==
    [p \in DOMAIN sheet \cup {<<row, col_num>> : col_num \in 1..Len(row_data)} |->
        IF p[1] = row /\ p[2] \in 1..Len(row_data)
        THEN ws_cell_value(sheet, p, row_data[p[2]])
        ELSE sheet[p]]

RowNotFound(sheet_name) == [k |-> "row14_not_found", of |-> sheet_name]

Raised(exc, sheet, current) == [exc |-> exc, ret |-> current, ws |-> sheet, out |-> <<>>]

\* df.iloc[14, 1] .. df.iloc[14, 6] are all within the frame
data_row_in_bounds(df) == \A c \in 1..6 : iloc_in_bounds(df, DATA_ROW, c)

header_date(df, c) ==
    extract_date(IF notna(iloc(df, DATE_ROW, c)) THEN iloc(df, DATE_ROW, c)
                 ELSE Str(<<"N", "/", "A">>))

\* faulty variant: the data cells are taken from columns 0..5
process_sheet_shifted(df, sheet, current, sheet_name) ==
    IF ~iloc_in_bounds(df, DATE_ROW, B_COL) \/ ~iloc_in_bounds(df, DATE_ROW, D_COL)
    THEN Raised("IndexError", sheet, current)
    ELSE IF ~data_row_in_bounds(df)
         THEN [exc |-> "", ret |-> current, ws |-> sheet,
               out |-> <<RowNotFound(sheet_name)>>]
         ELSE [exc |-> "", ret |-> current + 1,
               ws |-> write_row(sheet, current,
                                <<None>> \o [c \in 1..6 |-> iloc(df, DATA_ROW, c - 1)]
                                    \o <<header_date(df, B_COL), header_date(df, D_COL)>>),
               out |-> <<>>]

\* faulty variant: the cursor is advanced although the data row is missing
process_sheet_skiprow(df, sheet, current, sheet_name) ==
    IF ~iloc_in_bounds(df, DATE_ROW, B_COL) \/ ~iloc_in_bounds(df, DATE_ROW, D_COL)
    THEN Raised("IndexError", sheet, current)
    ELSE IF ~data_row_in_bounds(df)
         THEN [exc |-> "", ret |-> current + 1, ws |-> sheet,
               out |-> <<RowNotFound(sheet_name)>>]
         ELSE [exc |-> "", ret |-> current + 1,
               ws |-> write_row(sheet, current,
                                <<None>> \o [c \in 1..6 |-> iloc(df, DATA_ROW, c)]
                                    \o <<header_date(df, B_COL), header_date(df, D_COL)>>),
               out |-> <<>>]

\* process_sheet: [exc, ret, ws, out] = the exception that leaves the
\* function ("" when it returns), the value returned, the worksheet
\* afterwards and the lines printed.
process_sheet(df, sheet, current, sheet_name) ==
    \* lines 19-20, outside the try
    IF ~iloc_in_bounds(df, DATE_ROW, B_COL) \/ ~iloc_in_bounds(df, DATE_ROW, D_COL)
    THEN Raised("IndexError", sheet, current)
    ELSE LET b5_date == header_date(df, B_COL)
             d5_date == header_date(df, D_COL)
         IN \* lines 23-44: building row_data raises IndexError before any write
            IF ~data_row_in_bounds(df)
            THEN [exc |-> "", ret |-> current, ws |-> sheet,
                  out |-> <<RowNotFound(sheet_name)>>]
            ELSE \* row_data is built once, in full; then its cells are written
                 CHOOSE res \in
                     {[exc |-> "", ret |-> current + 1,
                       ws |-> write_row(sheet, current, row_data),
                       out |-> <<>>] :
                      row_data \in {<<None,
                                      iloc(df, DATA_ROW, 1), iloc(df, DATA_ROW, 2),
                                      iloc(df, DATA_ROW, 3), iloc(df, DATA_ROW, 4),
                                      iloc(df, DATA_ROW, 5), iloc(df, DATA_ROW, 6),
                                      b5_date, d5_date>>}} : TRUE

(***************************************************************************)
(* merge_excel_files                                                       *)
(***************************************************************************)
Msg(kind, about) == [k |-> kind, of |-> about]

NotSaved == [written |-> FALSE, complete |-> FALSE, cells |-> <<>>, border |-> {}]
NoCall == [fn |-> "none"]
NoRet == [done |-> FALSE]

headers == <<Label(""), Label(""), Label("Moneda/Pais"), Label("Compra (BID)"),
             Label("Venta (ASK)"), Label("Compra (BID)"), Label("Venta (ASK)"),
             Label("Fecha Operacion"), Label("Fecha Valor")>>

\* lines 56-84: the worksheet after the header setup
header_sheet ==
    LET titles == [p \in {<<1, 4>>, <<1, 6>>} |->
                      IF p = <<1, 4>> THEN Label("(a) Cotizacion M.E./US$")
                      ELSE Label("Bs./M.E.")]
    IN write_row(titles, HEADER_ROW, headers)

\* the sheets a workbook can hold
SheetKinds == {"valid", "short", "tiny", "corrupt"}

Tag(f, j) == 10 * (f + 1) + j

date_text(d) == Str(<<"F", ":", " ", "0", d, "/", "0", "1", "/", "2", "0", "2", "4">>)

sheet_cells(tag, j) ==
    [p \in {<<DATE_ROW, B_COL>>, <<DATE_ROW, D_COL>>} \cup {<<DATA_ROW, c>> : c \in 1..6} |->
        IF p = <<DATE_ROW, B_COL>> THEN date_text(IF j % 2 = 1 THEN "1" ELSE "2")
        ELSE IF p = <<DATE_ROW, D_COL>> THEN date_text("3")
        ELSE Num(10 * tag + p[2])]

in_bounds_cells(nrows, ncols, cells) ==
    [p \in {q \in DOMAIN cells : q[1] < nrows /\ q[2] < ncols} |-> cells[p]]

\* pd.read_excel on the j-th sheet of file f, a sheet of the given kind:
\* whether the read succeeds, and the DataFrame it yields
read_excel(kind, f, j) ==
    LET nrows == IF kind = "tiny" THEN 3 ELSE IF kind = "short" THEN 10 ELSE 15
    IN [readable |-> kind # "corrupt",
        df |-> [nrows |-> nrows, ncols |-> 7,
                cells |-> in_bounds_cells(nrows, 7, sheet_cells(Tag(f, j), j))]]

\* the workbooks of at most n sheets that a file can turn out to be
Workbooks(n) == UNION {[1..m -> SheetKinds] : m \in 0..n}

RECURSIVE SheetsSeen(_, _)
SheetsSeen(files, i) ==
    IF i > Len(files) THEN 0 ELSE Len(files[i].sheets) + SheetsSeen(files, i + 1)

PathValues == {"path", "not_a_path"}

MergeIdle ==
    /\ input_files = <<>>
    /\ disk = <<>>
    /\ pc = "idle"
    /\ file_idx = 0
    /\ xls = <<>>
    /\ sheet_idx = 0
    /\ current_row = FIRST_DATA_ROW
    /\ ws = header_sheet
    /\ border = {}
    /\ saved = NotSaved
    /\ out = <<>>
    /\ status = "running"

\* the state at line 89: workbook and header set up, current_row = 3
Init ==
    /\ input_files \in UNION {[1..n -> PathValues] : n \in 0..MaxFiles}
    /\ disk = <<>>
    /\ pc = "for"
    /\ file_idx = 0
    /\ xls = <<>>
    /\ sheet_idx = 0
    /\ current_row = FIRST_DATA_ROW
    /\ ws = header_sheet
    /\ border = {}
    /\ saved = NotSaved
    /\ out = <<>>
    /\ status = "running"
    /\ call = NoCall
    /\ ret = NoRet

\* faulty variant: an error escaping the run is not caught
FatalError_uncaught ==
    /\ status' = "raised"
    /\ pc' = "done"
    /\ UNCHANGED <<input_files, disk, file_idx, xls, sheet_idx, current_row, ws,
                   border, out>>

\* lines 114-115: the outer handler
FatalError ==
    /\ out' = Append(out, Msg("fatal", 0))
    /\ status' = "returned"
    /\ pc' = "done"
    /\ UNCHANGED <<input_files, disk, file_idx, xls, sheet_idx, current_row, ws, border>>

\* faulty variant: a file error ends the run
FileError_abort ==
    /\ out' = Append(out, Msg("fatal", 0))
    /\ status' = "returned"
    /\ pc' = "done"
    /\ UNCHANGED <<input_files, file_idx, xls, sheet_idx, current_row, ws, border, saved>>

\* lines 104-106: the per-file handler
FileError ==
    /\ out' = Append(out, Msg("error", file_idx))
    /\ pc' = "for"
    /\ file_idx' = file_idx + 1
    /\ UNCHANGED <<input_files, xls, sheet_idx, current_row, ws, border, saved, status>>

\* lines 89-90: the loop takes the next file and prints its name;
\* Path(input_file) raises TypeError for a value that is no path
NextFile ==
    /\ pc = "for"
    /\ file_idx < Len(input_files)
    /\ IF input_files[file_idx + 1] = "path"
       THEN /\ out' = Append(out, Msg("processing", file_idx))
            /\ pc' = "open"
            /\ UNCHANGED <<input_files, disk, file_idx, xls, sheet_idx, current_row,
                           ws, border, saved, status>>
       ELSE FatalError /\ UNCHANGED saved
    /\ UNCHANGED <<call, ret>>

\* line 93: pd.ExcelFile opens the workbook
OpenFile ==
    /\ pc = "open"
    /\ xls' \in Workbooks(MaxSheets - SheetsSeen(disk, 1))
    /\ disk' = Append(disk, [opened |-> TRUE, sheets |-> xls'])
    /\ sheet_idx' = 0
    /\ pc' = "sheets"
    /\ UNCHANGED <<input_files, file_idx, current_row, ws, border, saved, out, status>>
    /\ UNCHANGED <<call, ret>>

\* line 93: pd.ExcelFile raises
OpenFileFails ==
    /\ pc = "open"
    /\ disk' = Append(disk, [opened |-> FALSE, sheets |-> <<>>])
    /\ FileError
    /\ UNCHANGED <<call, ret>>

\* lines 95-97: one iteration of the sheet loop
ReadSheet ==
    /\ pc = "sheets"
    /\ sheet_idx < Len(xls)
    /\ \E read \in {read_excel(xls[sheet_idx + 1], file_idx, sheet_idx + 1)} :
          IF ~read.readable
          THEN FileError                        \* pd.read_excel raises
          ELSE \E res \in {process_sheet(read.df, ws, current_row, sheet_idx + 1)} :
                  IF res.exc # ""
                  THEN FileError                \* process_sheet raises
                  ELSE /\ current_row' = res.ret
                       /\ ws' = res.ws
                       /\ out' = out \o res.out
                       /\ sheet_idx' = sheet_idx + 1
                       /\ UNCHANGED <<input_files, pc, file_idx, xls, border, saved,
                                      status>>
    /\ UNCHANGED <<disk, call, ret>>

\* lines 100-102: the cells that get the dotted border after file idx
separator_cells(idx, nfiles, current) ==
    IF idx < nfiles - 1 THEN {<<current - 1, col>> : col \in 1..NUM_COLS} ELSE {}

\* ws.cell(row, column) creates the cells it does not find
touch_cells(sheet, cells) ==
    [p \in DOMAIN sheet \cup cells |-> ws_cell_value(sheet, p, None)]

\* lines 99-102: the sheet loop is over
EndOfFile ==
    /\ pc = "sheets"
    /\ sheet_idx = Len(xls)
    /\ LET cells == separator_cells(file_idx, Len(input_files), current_row)
       IN /\ border' = border \cup cells
          /\ ws' = touch_cells(ws, cells)
    /\ pc' = "for"
    /\ file_idx' = file_idx + 1
    /\ UNCHANGED <<input_files, disk, xls, sheet_idx, current_row, saved, out, status>>
    /\ UNCHANGED <<call, ret>>

\* line 111: the number printed as "Files processed"
files_processed(files) == Len(files)

\* line 112: the number printed as "Total rows added"
rows_added(current) == current - 3

\* lines 109-112: the loop is over, wb.save succeeds
Save ==
    /\ pc = "for"
    /\ file_idx = Len(input_files)
    /\ saved' = [written |-> TRUE, complete |-> TRUE, cells |-> ws, border |-> border]
    /\ out' = out \o <<Msg("success", 0),
                       Msg("files_processed", files_processed(input_files)),
                       Msg("rows_added", rows_added(current_row))>>
    /\ status' = "returned"
    /\ pc' = "done"
    /\ UNCHANGED <<input_files, disk, file_idx, xls, sheet_idx, current_row, ws, border>>
    /\ UNCHANGED <<call, ret>>

\* line 109: wb.save raises; the output file is absent or incomplete
SaveFails ==
    /\ pc = "for"
    /\ file_idx = Len(input_files)
    /\ \E left \in BOOLEAN :
          saved' = [written |-> left, complete |-> FALSE, cells |-> <<>>, border |-> {}]
    /\ FatalError
    /\ UNCHANGED <<call, ret>>

Next ==
    \/ NextFile
    \/ OpenFile
    \/ OpenFileFails
    \/ ReadSheet
    \/ EndOfFile
    \/ Save
    \/ SaveFails

Spec == Init /\ [][Next]_vars

\* the run is sequential code: every step that can be taken is taken
FairSpec == Spec /\ WF_vars(Next)

(***************************************************************************)
(* extract_date called on its own                                          *)
(***************************************************************************)
PadChars == {"1", "2", "/", "x"}

Pads == UNION {[1..n -> PadChars] : n \in 0..MaxPad}

\* dates, and texts that miss the date shape by one character
Cores == {<<"2", "7", "/", "0", "3", "/", "2", "0", "2", "4">>,
          <<"1", "2", "/", "2", "1", "/", "1", "1", "2", "2">>,
          <<"7", "/", "0", "3", "/", "2", "0", "2", "4">>,
          <<"2", "7", "/", "0", "3", "/", "2", "0", "2">>,
          <<"2", "7", "-", "0", "3", "-", "2", "0", "2", "4">>,
          <<"2", "7", "/", "0", "x", "/", "2", "0", "2", "4">>,
          <<"N", "/", "A">>,
          <<>>}

DateInputs ==
    {Str(pre \o core \o suf) : pre \in Pads, core \in Cores, suf \in Pads}
        \cup {Num(27032024), Num(0), NaN, None}

InitDate ==
    /\ MergeIdle
    /\ call \in {[fn |-> "extract_date", date_string |-> v] : v \in DateInputs}
    /\ ret = NoRet

CallExtractDate ==
    /\ call.fn = "extract_date"
    /\ ~ret.done
    /\ ret' = [done |-> TRUE, val |-> extract_date(call.date_string)]
    /\ UNCHANGED <<mergeVars, call>>

NextDate == CallExtractDate

SpecDate == InitDate /\ [][NextDate]_vars

(***************************************************************************)
(* process_sheet called on its own                                         *)
(***************************************************************************)
HeaderCells == {date_text("1"),
                Str(<<"2", "7", "/", "0", "3", "/", "2", "0", "2", "4", " ", "x">>),
                Str(<<"s", "/", "f">>),
                Num(45378),
                NaN}

\* row 14 as numbers, or as a text, numbers and an empty cell
DataRows == {[c \in 1..MaxCols |-> Num(70 + c)],
             [c \in 1..MaxCols |->
                 IF c = 1 THEN Str(<<"U", "S", "D">>) ELSE IF c = 3 THEN NaN ELSE Num(c)]}

MkDf(nrows, ncols, b5, d5, data) ==
    [nrows |-> nrows, ncols |-> ncols,
     cells |-> in_bounds_cells(nrows, ncols,
        [p \in {<<DATE_ROW, B_COL>>, <<DATE_ROW, D_COL>>}
                  \cup {<<DATA_ROW, c>> : c \in 0..MaxCols} |->
            IF p = <<DATE_ROW, B_COL>> THEN b5
            ELSE IF p = <<DATE_ROW, D_COL>> THEN d5
            ELSE IF p[2] = 0 THEN Num(0) ELSE data[p[2]]])]

DataFrames ==
    {MkDf(nrows, ncols, b5, d5, data) :
        nrows \in 0..MaxRows, ncols \in 0..MaxCols,
        b5 \in HeaderCells, d5 \in {date_text("3"), NaN}, data \in DataRows}

\* a worksheet with k data rows already written below the header
RECURSIVE prior_sheet(_)
prior_sheet(k) ==
    IF k = 0 THEN header_sheet
    ELSE write_row(prior_sheet(k - 1), FIRST_DATA_ROW + k - 1,
                   <<None>> \o [c \in 1..8 |-> Num(1000 * k + c)])

InitSheet ==
    /\ MergeIdle
    /\ \E df \in DataFrames, k \in 0..MaxPrior :
          call = [fn |-> "process_sheet", df |-> df, ws |-> prior_sheet(k),
                  current_row |-> FIRST_DATA_ROW + k, sheet_name |-> 1]
    /\ ret = NoRet

CallProcessSheet ==
    /\ call.fn = "process_sheet"
    /\ ~ret.done
    /\ ret' = [done |-> TRUE,
               val |-> process_sheet(call.df, call.ws, call.current_row, call.sheet_name)]
    /\ UNCHANGED <<mergeVars, call>>

NextSheet == CallProcessSheet

SpecSheet == InitSheet /\ [][NextSheet]_vars

(***************************************************************************)
(* Properties                                                              *)
(***************************************************************************)
DateShaped(t) ==
    /\ Len(t) = 10
    /\ t[3] = "/" /\ t[6] = "/"
    /\ \A k \in {1, 2, 4, 5, 7, 8, 9, 10} : t[k] \in Digits

\* the start positions of the date-shaped substrings of a text
DatePositions(text) ==
    {i \in 1..(Len(text) - 9) : DateShaped(SubSeq(text, i, i + 9))}

MinOf(S) == CHOOSE x \in S : \A y \in S : x <= y
MaxOf(S) == CHOOSE x \in S : \A y \in S : x >= y

\* C7: extract_date returns the date-shaped substring (the leftmost one) of
\* a text that contains one, whatever surrounds it, and returns every other
\* input, text or not, unchanged.
C7_ExtractDate ==
    (call.fn = "extract_date" /\ ret.done) =>
        LET v == call.date_string
            r == ret.val
        IN IF v.t = "str" /\ DatePositions(v.s) # {}
           THEN /\ r.t = "str"
                /\ DateShaped(r.s)
                /\ r.s = SubSeq(v.s, MinOf(DatePositions(v.s)), MinOf(DatePositions(v.s)) + 9)
           ELSE r = v

\* a date with text before and after it has been extracted
C7_Witness ==
    /\ call.fn = "extract_date" /\ ret.done
    /\ call.date_string.t = "str"
    /\ \E i \in DatePositions(call.date_string.s) :
          i > 1 /\ i + 9 < Len(call.date_string.s)
    /\ ret.val # call.date_string

\* the data row and both header date cells can be read
WellFormed(df) == df.nrows > DATA_ROW /\ df.ncols > 6

RowCells(r) == {<<r, c>> : c \in 1..NUM_COLS}

\* D(x) of the claim: extract_date of x, or of "N/A" when x is empty
DateField(x) == extract_date(IF x.t = "nan" THEN Str(<<"N", "/", "A">>) ELSE x)

\* C8: for a well-formed sheet process_sheet returns cursor + 1 and writes at
\* the cursor row [empty, cell(14,1..6) verbatim, D(cell(4,1)), D(cell(4,3))],
\* leaving every other cell of the output as it was.
C8_WellFormedRow ==
    (call.fn = "process_sheet" /\ ret.done /\ WellFormed(call.df)) =>
        LET r == ret.val
            row == call.current_row
            src == call.df.cells
        IN /\ r.exc = ""
           /\ r.ret = row + 1
           /\ DOMAIN r.ws = DOMAIN call.ws \cup RowCells(row)
           /\ r.ws[<<row, 1>>] = None
           /\ \A c \in 2..7 : r.ws[<<row, c>>] = src[<<DATA_ROW, c - 1>>]
           /\ r.ws[<<row, 8>>] = DateField(src[<<DATE_ROW, 1>>])
           /\ r.ws[<<row, 9>>] = DateField(src[<<DATE_ROW, 3>>])
           /\ \A p \in DOMAIN call.ws : r.ws[p] = call.ws[p]

\* a well-formed sheet with an empty B5, a dated D5 and an empty data cell
\* was projected below rows written earlier
C8_Witness ==
    /\ call.fn = "process_sheet" /\ ret.done /\ WellFormed(call.df)
    /\ call.df.cells[<<DATE_ROW, 1>>] = NaN
    /\ call.df.cells[<<DATE_ROW, 3>>] # NaN
    /\ call.df.cells[<<DATA_ROW, 3>>] = NaN
    /\ call.current_row > FIRST_DATA_ROW
    /\ ret.val.ret = call.current_row + 1
    /\ ret.val.ws[<<call.current_row, 8>>] = Str(<<"N", "/", "A">>)

\* C2 as stated: for every sheet with fewer than 15 rows process_sheet
\* writes nothing, returns the cursor unchanged and raises no error.
C2_ShortSheetNoRaise ==
    (call.fn = "process_sheet" /\ ret.done /\ call.df.nrows <= DATA_ROW) =>
        /\ ret.val.exc = ""
        /\ ret.val.ret = call.current_row
        /\ ret.val.ws = call.ws

\* the rows below the header that hold at least one cell
DataRowsOf(sheet) == {p[1] : p \in DOMAIN sheet} \ (1..HEADER_ROW)

RowComplete(sheet, r) == RowCells(r) \subseteq DOMAIN sheet

\* the numbers printed as "Total rows added"
ReportedRows == {out[k].of : k \in {i \in 1..Len(out) : out[i].k = "rows_added"}}

C10_State ==
    /\ current_row >= 3
    /\ DataRowsOf(ws) = 3..(current_row - 1)
    /\ \A r \in DataRowsOf(ws) : RowComplete(ws, r)
    /\ \A n \in ReportedRows : n = Cardinality(DataRowsOf(ws))

C10_Step ==
    /\ current_row' \in {current_row, current_row + 1}
    /\ (current_row' = current_row + 1) <=> (DataRowsOf(ws') # DataRowsOf(ws))
    /\ (current_row' = current_row + 1) =>
          /\ current_row \notin DataRowsOf(ws)
          /\ DataRowsOf(ws') = DataRowsOf(ws) \cup {current_row}
          /\ RowComplete(ws', current_row)
    /\ \A p \in DOMAIN ws : p \in DOMAIN ws' /\ ws'[p] = ws[p]

\* C10: the cursor is at least 3 and never decreases; it grows by one exactly
\* when a complete 9-cell row is written at the cursor; the data rows are
\* exactly rows 3..cursor-1, each complete and never overwritten; and the
\* reported total equals the number of data rows.
C10_Cursor == []C10_State /\ [][C10_Step]_vars

\* two files have each contributed a row and the total was reported
C10_Witness ==
    /\ pc = "done" /\ saved.complete
    /\ Len(disk) = 2
    /\ current_row = 5
    /\ ReportedRows = {2}

\* the j-th sheet of the i-th file opened, as read
SheetOf(i, j) == read_excel(disk[i].sheets[j], i - 1, j)

\* the sheet's read or its projection raises inside the per-file try
SheetFails(sheet) ==
    \/ ~sheet.readable
    \/ sheet.df.nrows <= DATE_ROW
    \/ sheet.df.ncols <= D_COL

\* the sheet has the cells of row 14 that process_sheet copies
HasDataRow(sheet) == sheet.df.nrows > DATA_ROW /\ sheet.df.ncols > 6

\* the first data cell of the sheets of file i that get a row written:
\* those with a data row, up to the first sheet that fails
RECURSIVE WrittenFrom(_, _)
WrittenFrom(i, j) ==
    IF j > Len(disk[i].sheets) THEN <<>>
    ELSE IF SheetFails(SheetOf(i, j)) THEN <<>>
    ELSE IF HasDataRow(SheetOf(i, j))
         THEN <<SheetOf(i, j).df.cells[<<DATA_ROW, 1>>]>> \o WrittenFrom(i, j + 1)
         ELSE WrittenFrom(i, j + 1)

RECURSIVE WrittenBy(_)
WrittenBy(i) ==
    IF i > Len(disk) THEN <<>> ELSE WrittenFrom(i, 1) \o WrittenBy(i + 1)

FileFailed(i) ==
    \/ ~disk[i].opened
    \/ \E j \in 1..Len(disk[i].sheets) : SheetFails(SheetOf(i, j))

\* this step is the one in which the open or a sheet of the current file fails
FailingStep ==
    \/ /\ pc = "open"
       /\ Len(disk') = Len(disk) + 1
       /\ ~disk'[Len(disk')].opened
    \/ /\ pc = "sheets"
       /\ sheet_idx < Len(xls)
       /\ SheetFails(read_excel(xls[sheet_idx + 1], file_idx, sheet_idx + 1))

C4_Step ==
    FailingStep =>
        /\ pc' = "for"
        /\ file_idx' = file_idx + 1
        /\ status' = "running"
        /\ current_row' = current_row
        /\ ws' = ws

C4_Final ==
    (pc = "done" /\ saved.complete) =>
        LET written == WrittenBy(1)
        IN /\ current_row - 3 = Len(written)
           /\ \A k \in 1..Len(written) : saved.cells[<<k + 2, 2>>] = written[k]

\* C4: when the open or the read of a file fails, the run goes on with the
\* next file, cursor and worksheet are as they were at the failure, and the
\* saved output holds the rows of the other files plus the rows the failed
\* file wrote before it failed.
C4_FileFailure == []C4_Final /\ [][C4_Step]_vars

\* the first file failed after writing a row, the second file added a row
C4_Witness ==
    /\ pc = "done" /\ saved.complete
    /\ Len(disk) = 2
    /\ disk[1].opened /\ Len(disk[1].sheets) = 2
    /\ HasDataRow(SheetOf(1, 1)) /\ ~SheetOf(1, 2).readable
    /\ ~FileFailed(2)
    /\ current_row = 5

NoSuccessPrinted == \A k \in 1..Len(out) : out[k].k # "success"

C6_State ==
    /\ status # "raised"
    /\ (pc = "done") => (status = "returned")
    /\ (pc = "done" /\ file_idx < Len(input_files)) =>
          (saved = NotSaved /\ NoSuccessPrinted)

\* C6: every run ends by returning, never by raising, whatever fails; and a
\* run ended by a failure before the save step writes no output file and
\* prints no success summary.
C6_Terminates == <>(pc = "done") /\ []C6_State

\* a run ended at its second file, after the first file had written a row
C6_Witness ==
    /\ pc = "done"
    /\ file_idx < Len(input_files)
    /\ current_row > FIRST_DATA_ROW
    /\ saved = NotSaved

AllRead == \A i \in 1..Len(disk) :
               /\ disk[i].opened
               /\ \A j \in 1..Len(disk[i].sheets) : SheetOf(i, j).readable

\* the first data cell of every sheet that has a row at index 14, in file
\* order then sheet order
RECURSIVE ValidIn(_, _)
ValidIn(i, j) ==
    IF j > Len(disk[i].sheets) THEN <<>>
    ELSE IF SheetOf(i, j).df.nrows > DATA_ROW
         THEN <<SheetOf(i, j).df.cells[<<DATA_ROW, 1>>]>> \o ValidIn(i, j + 1)
         ELSE ValidIn(i, j + 1)

RECURSIVE ValidOf(_)
ValidOf(i) ==
    IF i > Len(disk) THEN <<>> ELSE ValidIn(i, 1) \o ValidOf(i + 1)

\* C1 as stated: files that hold M sheets with a row at index 14 leave
\* exactly M data rows, at rows 3..M+2, in file order then sheet order
\* (stated here for runs in which every file and sheet could be read).
C1_OneRowPerValidSheet ==
    (pc = "done" /\ saved.complete /\ AllRead) =>
        LET valid == ValidOf(1)
        IN /\ DataRowsOf(saved.cells) = 3..(Len(valid) + 2)
           /\ \A k \in 1..Len(valid) : saved.cells[<<k + 2, 2>>] = valid[k]

\* the rows whose data came from the file with enumerate index f
RowsOfFile(f) == {r \in DataRowsOf(ws) : ws[<<r, 2>>].n \div 100 = f + 1}

SeparatorRow(f) == IF RowsOfFile(f) = {} THEN HEADER_ROW ELSE MaxOf(RowsOfFile(f))

\* C3 as stated: after the run every file but the final one, read or
\* failed, has the separator on its last row (on the header row when it
\* wrote none), and the final file's last row has none.
C3_SeparatorPerFile ==
    (pc = "done" /\ saved.complete) =>
        /\ \A f \in 0..(Len(input_files) - 2) : RowCells(SeparatorRow(f)) \subseteq border
        /\ Len(input_files) > 0 =>
              LET last == Len(input_files) - 1
              IN RowsOfFile(last) # {} => RowCells(SeparatorRow(last)) \cap border = {}

\* C5 as stated: a sheet that lacks the data row writes no row and the run
\* goes on with the next sheet of the same file.
C5_MissingRowStaysInFile ==
    [][(/\ pc = "sheets"
        /\ sheet_idx < Len(xls)
        /\ read_excel(xls[sheet_idx + 1], file_idx, sheet_idx + 1).readable
        /\ read_excel(xls[sheet_idx + 1], file_idx, sheet_idx + 1).df.nrows <= DATA_ROW)
       => (/\ ws' = ws
           /\ current_row' = current_row
           /\ pc' = "sheets"
           /\ file_idx' = file_idx
           /\ sheet_idx' = sheet_idx + 1)]_vars

\* the files opened and read to their last sheet
ReadToCompletion == {i \in 1..Len(disk) : ~FileFailed(i)}

\* C9 as stated: the summary's file count is the number of files that were
\* opened and read to completion.
C9_CountsCompletedFiles ==
    \A k \in 1..Len(out) :
        out[k].k = "files_processed" => out[k].of = Cardinality(ReadToCompletion)

====
